---- MODULE Spec2Model ----
(***************************************************************************)
(* A model of the RNG library: the scalar PCG generator (random_sisd.c),   *)
(* the 4-lane AVX2 generator (random_simd.c) and the bit-stream utilities. *)
(*                                                                         *)
(* TLC's integers are 32 bits wide, so a machine word is a little-endian   *)
(* sequence of bytes: a uint64_t is 8 bytes, a uint32_t is 4 bytes, and    *)
(* all arithmetic is carried out byte by byte, modulo 2^(8*Len).           *)
(***************************************************************************)
EXTENDS Integers, Sequences, FiniteSets, TLC

(***************************************************************************)
(* Machine words                                                           *)
(***************************************************************************)

\* A value below 2^31 as a little-endian word of len bytes.
RECURSIVE Bytes(_, _)
Bytes(v, len) ==
    IF len = 0 THEN <<>> ELSE <<v % 256>> \o Bytes(v \div 256, len - 1)

\* A 64-bit literal from its four 16-bit quarters, most significant first.
U64(q3, q2, q1, q0) ==
    Bytes(q0, 2) \o Bytes(q1, 2) \o Bytes(q2, 2) \o Bytes(q3, 2)

\* The value of a word, for words known to be small.
RECURSIVE ToNat(_)
ToNat(a) == IF a = <<>> THEN 0 ELSE Head(a) + 256 * ToNat(Tail(a))

\* A byte-indexed expression as a word: the tuple of its values.
Word(f) == f \o <<>>

ZeroW(len) == Word([i \in 1..len |-> 0])
OnesW(len) == Word([i \in 1..len |-> 255])
Zero64 == ZeroW(8)
One64 == Bytes(1, 8)

\* The byte at position i (1 = least significant), 0 beyond the word.
ByteAt(a, i) == IF i >= 1 /\ i <= Len(a) THEN a[i] ELSE 0

RECURSIVE AndN(_, _, _)
AndN(x, y, k) ==
    IF k = 0 THEN 0 ELSE (x % 2) * (y % 2) + 2 * AndN(x \div 2, y \div 2, k - 1)

\* x & y on bytes, tabulated once.
AndTab == [x \in 0..255 |-> [y \in 0..255 |-> AndN(x, y, 8)]]

AndW(a, b) == Word([i \in 1..Len(a) |-> AndTab[a[i]][b[i]]])
OrW(a, b) == Word([i \in 1..Len(a) |-> a[i] + b[i] - AndTab[a[i]][b[i]]])
XorW(a, b) == Word([i \in 1..Len(a) |-> a[i] + b[i] - 2 * AndTab[a[i]][b[i]]])
NotW(a) == Word([i \in 1..Len(a) |-> 255 - a[i]])

\* a >> s and a << s, for 0 <= s; bits shifted out are lost, zeros come in.
ShrW(a, s) ==
    LET q == s \div 8
        r == s % 8
    IN  Word([i \in 1..Len(a) |->
            ((ByteAt(a, i + q) \div (2 ^ r))
                + ByteAt(a, i + q + 1) * (2 ^ (8 - r))) % 256])

ShlW(a, s) ==
    LET q == s \div 8
        r == s % 8
    IN  Word([i \in 1..Len(a) |->
            (ByteAt(a, i - q) * (2 ^ r)
                + (ByteAt(a, i - q - 1) \div (2 ^ (8 - r)))) % 256])

\* a + b with the carry out of the top byte: [sum, carry].
RECURSIVE AddFrom(_, _, _, _)
AddFrom(a, b, i, c) ==
    IF i > Len(a)
    THEN [sum |-> <<>>, carry |-> c]
    ELSE LET s == a[i] + b[i] + c
             rest == AddFrom(a, b, i + 1, s \div 256)
         IN  [sum |-> <<s % 256>> \o rest.sum, carry |-> rest.carry]

\* a + b modulo 2^(8*Len(a)): unsigned wraparound.
AddW(a, b) == AddFrom(a, b, 1, 0).sum

\* a - b modulo 2^(8*Len(a)).
SubW(a, b) == AddFrom(a, NotW(b), 1, 1).sum

RECURSIVE ColSum(_, _, _, _)
ColSum(a, b, k, i) ==
    IF i > k THEN 0 ELSE a[i] * b[k + 1 - i] + ColSum(a, b, k, i + 1)

RECURSIVE MulFrom(_, _, _, _)
MulFrom(a, b, k, c) ==
    IF k > Len(a)
    THEN <<>>
    ELSE LET s == c + ColSum(a, b, k, 1)
         IN  <<s % 256>> \o MulFrom(a, b, k + 1, s \div 256)

\* a * b modulo 2^(8*Len(a)): unsigned wraparound.
MulW(a, b) == MulFrom(a, b, 1, 0)

\* a <= b and a < b, unsigned.
RECURSIVE LeFrom(_, _, _)
LeFrom(a, b, i) ==
    IF i = 0 THEN TRUE
    ELSE IF a[i] # b[i] THEN a[i] < b[i]
    ELSE LeFrom(a, b, i - 1)

LeW(a, b) == LeFrom(a, b, Len(a))
LtW(a, b) == a # b /\ LeW(a, b)

\* Bit i of a (0 = least significant).
BitW(a, i) == (a[(i \div 8) + 1] \div (2 ^ (i % 8))) % 2

\* __builtin_clzll, __builtin_ctzll, __builtin_popcountll (a # 0 for the first two).
RECURSIVE ClzFrom(_, _)
ClzFrom(a, i) ==
    IF i < 0 THEN 8 * Len(a)
    ELSE IF BitW(a, i) = 1 THEN 8 * Len(a) - 1 - i
    ELSE ClzFrom(a, i - 1)

clzll(a) == ClzFrom(a, 8 * Len(a) - 1)

RECURSIVE CtzFrom(_, _)
CtzFrom(a, i) ==
    IF i >= 8 * Len(a) THEN 8 * Len(a)
    ELSE IF BitW(a, i) = 1 THEN i
    ELSE CtzFrom(a, i + 1)

ctzll(a) == CtzFrom(a, 0)

RECURSIVE PopFrom(_, _)
PopFrom(a, i) ==
    IF i >= 8 * Len(a) THEN 0 ELSE BitW(a, i) + PopFrom(a, i + 1)

popcountll(a) == PopFrom(a, 0)

(***************************************************************************)
(* random_utils: the seed mixer and the hardware entropy source            *)
(***************************************************************************)

\* The test suite's copy of the mixer (SplitMix64's finaliser).
mix(value) ==
    LET v1 == XorW(value, ShrW(value, 30))
        v2 == MulW(v1, U64(\hBF58, \h476D, \h1CE4, \hE5B9))
        v3 == XorW(v2, ShrW(v2, 27))
        v4 == MulW(v3, U64(\h94D0, \h49BB, \h1331, \h11EB))
    IN  XorW(v4, ShrW(v4, 31))

\* rng_hash: its body is not in the sources; the mixer described for it.
rng_hash(value) == mix(value)

\* One rdrand call: e.ok says whether it succeeded within its retries, and
\* e.value is what it left in *x (a valid random number only when e.ok).
rdrand(e) == e.ok

(***************************************************************************)
(* The scalar generator                                                    *)
(***************************************************************************)

\* rng_init's if/else on the seed; ent is what the entropy source would
\* answer, in order.  ok says whether control reaches the success label,
\* draws is the number of rdrand calls made.
rng_seed_inverted(seed, ent) ==
    IF seed = Zero64
    THEN [ok |-> TRUE, state |-> rng_hash(seed),
          increment |-> rng_hash(rng_hash(seed)), draws |-> 0]
    ELSE IF ~rdrand(ent[1])
    THEN [ok |-> FALSE, state |-> Zero64, increment |-> Zero64, draws |-> 1]
    ELSE IF ~rdrand(ent[2])
    THEN [ok |-> FALSE, state |-> Zero64, increment |-> Zero64, draws |-> 2]
    ELSE [ok |-> TRUE, state |-> ent[1].value, increment |-> ent[2].value,
          draws |-> 2]

rng_seed_keeps_partial(seed, ent) ==
    IF seed # Zero64
    THEN [ok |-> TRUE, state |-> rng_hash(seed),
          increment |-> rng_hash(rng_hash(seed)), draws |-> 0]
    ELSE IF ~rdrand(ent[1])
    THEN [ok |-> FALSE, state |-> ent[1].value, increment |-> Zero64,
          draws |-> 1]
    ELSE IF ~rdrand(ent[2])
    THEN [ok |-> FALSE, state |-> ent[1].value, increment |-> ent[2].value,
          draws |-> 2]
    ELSE [ok |-> TRUE, state |-> ent[1].value, increment |-> ent[2].value,
          draws |-> 2]

rng_seed(seed, ent) ==
    IF seed # Zero64
    THEN [ok |-> TRUE, state |-> rng_hash(seed),
          increment |-> rng_hash(rng_hash(seed)), draws |-> 0]
    ELSE IF ~rdrand(ent[1])
    THEN [ok |-> FALSE, state |-> Zero64, increment |-> Zero64, draws |-> 1]
    ELSE IF ~rdrand(ent[2])
    THEN [ok |-> FALSE, state |-> Zero64, increment |-> Zero64, draws |-> 2]
    ELSE [ok |-> TRUE, state |-> ent[1].value, increment |-> ent[2].value,
          draws |-> 2]

\* rng_init(seed): the generator it returns and the rdrand calls it made.
rng_init_no_odd(seed, ent) ==
    LET drawn == rng_seed(seed, ent)
    IN  [rng |-> [state |-> drawn.state, increment |-> drawn.increment],
         draws |-> drawn.draws]

rng_init(seed, ent) ==
    LET drawn == rng_seed(seed, ent)
    IN  [rng |-> [state |-> drawn.state,
                  increment |-> IF drawn.ok
                                THEN OrW(drawn.increment, One64)
                                ELSE drawn.increment],
         draws |-> drawn.draws]

\* The LCG step and the output permutation of rng_next.
lcg_step_forcing_odd(state, increment) ==
    AddW(MulW(state, U64(\h5851, \hF42D, \h4C95, \h7F2D)),
         OrW(increment, One64))

lcg_step(state, increment) ==
    AddW(MulW(state, U64(\h5851, \hF42D, \h4C95, \h7F2D)), increment)

rxs_m_xs(x) ==
    LET fx == MulW(XorW(ShrW(x, ToNat(ShrW(x, 59)) + 5), x),
                   U64(\hAEF1, \h7502, \h108E, \hF2D9))
    IN  XorW(ShrW(fx, 43), fx)

\* The generator after one rng_next, and the value rng_next returns.
rng_next(rng) ==
    [rng |-> [state |-> lcg_step(rng.state, rng.increment),
              increment |-> rng.increment],
     out |-> rxs_m_xs(rng.state)]

\* One pass of rng_bias's switch: the bitcode at pc combines a word.
BiasStep_swapped(n, pc, accumulator, word) ==
    IF BitW(n, pc) = 1 THEN AndW(accumulator, word) ELSE OrW(accumulator, word)

BiasStep(n, pc, accumulator, word) ==
    IF BitW(n, pc) = 0 THEN AndW(accumulator, word) ELSE OrW(accumulator, word)

\* rng_bias's loop from pc on; calls counts the rng_next calls made.
RECURSIVE bias_loop(_, _, _, _, _, _)
bias_loop(rng, n, m, pc, accumulator, calls) ==
    IF pc < m
    THEN LET nx == rng_next(rng)
         IN  bias_loop(nx.rng, n, m, pc + 1,
                       BiasStep(n, pc, accumulator, nx.out), calls + 1)
    ELSE [rng |-> rng, value |-> accumulator, calls |-> calls]

rng_bias_from_next_bit(rng, n, m) ==
    bias_loop(rng, n, m, ctzll(n) + 1, Zero64, 0)

rng_bias(rng, n, m) == bias_loop(rng, n, m, ctzll(n), Zero64, 0)

\* The rng_next calls rng_bias(n, m) makes.
BiasCalls(n, m) == m - ctzll(n)

\* The assertions rng_bias opens with, and the header's n < 2^m.
BiasPre(n, m) == n # Zero64 /\ m > 0 /\ m <= 64 /\ ShrW(ShrW(n, m - 1), 1) = Zero64

\* The same loop fed the words the generator returned, words[1] first.
RECURSIVE bias_words(_, _, _, _, _)
bias_words(words, n, m, pc, accumulator) ==
    IF pc < m
    THEN bias_words(Tail(words), n, m, pc + 1,
                    BiasStep(n, pc, accumulator, Head(words)))
    ELSE accumulator

rng_bias_on(words, n, m) == bias_words(words, n, m, ctzll(n), Zero64)

\* rng_rand up to its loop: the span and its bitmask.
rand_mask(min, max) ==
    LET scaled_max == SubW(max, min)
    IN  [scaled_max |-> scaled_max,
         bitmask |-> ShrW(NotW(Zero64), clzll(scaled_max))]

\* rng_bino's loop of whole 64-trial chunks, then the final partial chunk.
RECURSIVE bino_loop_unshifted(_, _, _, _, _, _, _)
bino_loop_unshifted(rng, k, n, m, success, calls, chunks) ==
    LET b == rng_bias(rng, n, m)
    IN  IF k > 64
        THEN bino_loop_unshifted(b.rng, k - 64, n, m,
                                 success + popcountll(b.value),
                                 calls + b.calls, chunks + 1)
        ELSE [rng |-> b.rng,
              value |-> success + popcountll(b.value),
              calls |-> calls + b.calls,
              chunks |-> chunks + 1,
              shift |-> 64 - k]

RECURSIVE bino_loop_while_ge(_, _, _, _, _, _, _)
bino_loop_while_ge(rng, k, n, m, success, calls, chunks) ==
    LET b == rng_bias(rng, n, m)
    IN  IF k >= 64
        THEN bino_loop_while_ge(b.rng, k - 64, n, m,
                                success + popcountll(b.value),
                                calls + b.calls, chunks + 1)
        ELSE [rng |-> b.rng,
              value |-> success + popcountll(ShrW(b.value, 64 - k)),
              calls |-> calls + b.calls,
              chunks |-> chunks + 1,
              shift |-> 64 - k]

RECURSIVE bino_loop(_, _, _, _, _, _, _)
bino_loop(rng, k, n, m, success, calls, chunks) ==
    LET b == rng_bias(rng, n, m)
    IN  IF k > 64
        THEN bino_loop(b.rng, k - 64, n, m, success + popcountll(b.value),
                       calls + b.calls, chunks + 1)
        ELSE [rng |-> b.rng,
              value |-> success + popcountll(ShrW(b.value, 64 - k)),
              calls |-> calls + b.calls,
              chunks |-> chunks + 1,
              shift |-> 64 - k]

rng_bino(rng, k, n, m) == bino_loop(rng, k, n, m, 0, 0, 0)

\* The words that count successive rng_next calls return, first call first.
RECURSIVE next_words(_, _)
next_words(rng, count) ==
    IF count = 0 THEN <<>>
    ELSE LET nx == rng_next(rng)
         IN  <<nx.out>> \o next_words(nx.rng, count - 1)

\* The words that count successive rng_bias(rng, n, m) calls return.
RECURSIVE bias_values(_, _, _, _)
bias_values(rng, n, m, count) ==
    IF count = 0 THEN <<>>
    ELSE LET b == rng_bias(rng, n, m)
         IN  <<b.value>> \o bias_values(b.rng, n, m, count - 1)

(***************************************************************************)
(* AVX2 vectors: a __m256i is four 64-bit lanes, lane 1 being bits 0..63   *)
(* (the first 8 bytes in memory); a lane holds two 32-bit elements, its    *)
(* low half (bytes 1..4) and its high half (bytes 5..8).                   *)
(***************************************************************************)

Lanes == 1..4

Lo32(lane) == SubSeq(lane, 1, 4)
Hi32(lane) == SubSeq(lane, 5, 8)

\* _mm256_set_epi64x(e3, e2, e1, e0): the LAST argument is the lowest lane.
mm256_set_epi64x_first_lowest(e3, e2, e1, e0) == <<e3, e2, e1, e0>>

mm256_set_epi64x(e3, e2, e1, e0) == <<e0, e1, e2, e3>>
mm256_set1_epi64x(a) == <<a, a, a, a>>
mm256_set1_epi32(a) == LET e == Lo32(a) IN <<e \o e, e \o e, e \o e, e \o e>>
mm256_setzero_si256 == <<Zero64, Zero64, Zero64, Zero64>>

mm256_and_si256(a, b) == Word([i \in Lanes |-> AndW(a[i], b[i])])
mm256_or_si256_first_only(a, b) == a

mm256_or_si256(a, b) == Word([i \in Lanes |-> OrW(a[i], b[i])])
mm256_xor_si256(a, b) == Word([i \in Lanes |-> XorW(a[i], b[i])])

\* Shifts and sums on each 32-bit element, nothing crossing between elements.
mm256_srli_epi32(a, imm) ==
    Word([i \in Lanes |-> ShrW(Lo32(a[i]), imm) \o ShrW(Hi32(a[i]), imm)])

mm256_add_epi32(a, b) ==
    Word([i \in Lanes |-> AddW(Lo32(a[i]), Lo32(b[i]))
                            \o AddW(Hi32(a[i]), Hi32(b[i]))])

\* A per-element shift count: a count of 32 or more clears the element.
Srlv32(e, count) ==
    IF SubSeq(count, 2, 4) # ZeroW(3) \/ count[1] >= 32
    THEN ZeroW(4)
    ELSE ShrW(e, count[1])

mm256_srlv_epi32(a, count) ==
    Word([i \in Lanes |-> Srlv32(Lo32(a[i]), Lo32(count[i]))
                            \o Srlv32(Hi32(a[i]), Hi32(count[i]))])

\* The low 32-bit elements of each lane multiplied to a full 64-bit product.
mm256_mul_epu32(a, b) ==
    Word([i \in Lanes |-> MulW(Lo32(a[i]) \o ZeroW(4), Lo32(b[i]) \o ZeroW(4))])

mm256_add_epi64(a, b) == Word([i \in Lanes |-> AddW(a[i], b[i])])
mm256_slli_epi64(a, imm) == Word([i \in Lanes |-> ShlW(a[i], imm)])

(***************************************************************************)
(* The vector generator                                                    *)
(***************************************************************************)

\* rdrand(&LL) && rdrand(&LH) && rdrand(&HL) && rdrand(&HH) on the four
\* answers ent[from+1..from+4]: whether all succeeded, and the calls made.
RECURSIVE rdrand4(_, _, _)
rdrand4(ent, from, i) ==
    IF i > 4 THEN [ok |-> TRUE, draws |-> 4]
    ELSE IF ~rdrand(ent[from + i]) THEN [ok |-> FALSE, draws |-> i]
    ELSE rdrand4(ent, from, i + 1)

\* simd_rng_init; ent is what the entropy source would answer, in order.
simd_rng_init(seed_1, seed_2, seed_3, seed_4, ent) ==
    LET mask == mm256_set1_epi64x(Bytes(\hFFFF, 2) \o Bytes(\hFFFF, 2) \o ZeroW(4))
        odd == mm256_set1_epi64x(One64)
        first == rdrand4(ent, 0, 1)
        second == rdrand4(ent, 4, 1)
        drawn ==
            IF seed_1 # Zero64 /\ seed_2 # Zero64 /\ seed_3 # Zero64
                /\ seed_4 # Zero64
            THEN LET LL == rng_hash(seed_4)
                     LH == rng_hash(seed_3)
                     HL == rng_hash(seed_2)
                     HH == rng_hash(seed_1)
                 IN  [ok |-> TRUE,
                      state |-> mm256_set_epi64x(LL, LH, HL, HH),
                      increment |-> mm256_set_epi64x(rng_hash(LL), rng_hash(LH),
                                                     rng_hash(HL), rng_hash(HH)),
                      draws |-> 0]
            ELSE IF ~first.ok
            THEN [ok |-> FALSE, state |-> mm256_setzero_si256,
                  increment |-> mm256_setzero_si256, draws |-> first.draws]
            ELSE IF ~second.ok
            THEN [ok |-> FALSE, state |-> mm256_setzero_si256,
                  increment |-> mm256_setzero_si256,
                  draws |-> 4 + second.draws]
            ELSE [ok |-> TRUE,
                  state |-> mm256_set_epi64x(ent[1].value, ent[2].value,
                                             ent[3].value, ent[4].value),
                  increment |-> mm256_set_epi64x(ent[5].value, ent[6].value,
                                                 ent[7].value, ent[8].value),
                  draws |-> 8]
    IN  [rng |-> IF drawn.ok
                 THEN [state |-> mm256_and_si256(drawn.state, mask),
                       increment |->
                           mm256_or_si256(
                               mm256_and_si256(drawn.increment, mask), odd)]
                 ELSE [state |-> drawn.state, increment |-> drawn.increment],
         draws |-> drawn.draws]

\* simd_rng_next_partial: the vector it returns and the generator after it.
simd_rng_next_partial_unmasked(rng) ==
    LET lcg_mult == mm256_set1_epi64x(Bytes(\h77B5, 2) \o Bytes(\h2C92, 2) \o ZeroW(4))
        rxs_mult == mm256_set1_epi64x(Bytes(\hF2D9, 2) \o Bytes(\h108E, 2) \o ZeroW(4))
        mod_mask == mm256_set1_epi64x(Bytes(\hFFFF, 2) \o Bytes(\hFFFF, 2) \o ZeroW(4))
        x == rng.state
        fx1 == mm256_add_epi32(mm256_srli_epi32(x, 28),
                               mm256_set1_epi32(Bytes(4, 4)))
        fx2 == mm256_srlv_epi32(x, fx1)
        fx3 == mm256_xor_si256(x, fx2)
        fx4 == mm256_mul_epu32(fx3, rxs_mult)
        fx5 == mm256_and_si256(fx4, mod_mask)
        fx6 == mm256_xor_si256(mm256_srli_epi32(fx5, 22), fx5)
        st1 == mm256_mul_epu32(rng.state, lcg_mult)
        st2 == mm256_and_si256(st1, mod_mask)
        st3 == mm256_add_epi64(st2, rng.increment)
    IN  [rng |-> [state |-> st3, increment |-> rng.increment], out |-> fx6]

simd_rng_next_partial(rng) ==
    LET lcg_mult == mm256_set1_epi64x(Bytes(\h77B5, 2) \o Bytes(\h2C92, 2) \o ZeroW(4))
        rxs_mult == mm256_set1_epi64x(Bytes(\hF2D9, 2) \o Bytes(\h108E, 2) \o ZeroW(4))
        mod_mask == mm256_set1_epi64x(Bytes(\hFFFF, 2) \o Bytes(\hFFFF, 2) \o ZeroW(4))
        x == rng.state
        fx1 == mm256_add_epi32(mm256_srli_epi32(x, 28),
                               mm256_set1_epi32(Bytes(4, 4)))
        fx2 == mm256_srlv_epi32(x, fx1)
        fx3 == mm256_xor_si256(x, fx2)
        fx4 == mm256_mul_epu32(fx3, rxs_mult)
        fx5 == mm256_and_si256(fx4, mod_mask)
        fx6 == mm256_xor_si256(mm256_srli_epi32(fx5, 22), fx5)
        st1 == mm256_mul_epu32(rng.state, lcg_mult)
        st2 == mm256_and_si256(st1, mod_mask)
        st3 == mm256_add_epi64(st2, rng.increment)
        st4 == mm256_and_si256(st3, mod_mask)
    IN  [rng |-> [state |-> st4, increment |-> rng.increment], out |-> fx6]

\* simd_rng_next: two partial steps packed into one 256-bit output.
simd_rng_next_swapped(rng) ==
    LET lower == simd_rng_next_partial(rng)
        upper == simd_rng_next_partial(lower.rng)
    IN  [rng |-> upper.rng,
         out |-> mm256_or_si256(mm256_slli_epi64(lower.out, 32), upper.out),
         lower |-> lower.out,
         upper |-> upper.out]

simd_rng_next(rng) ==
    LET lower == simd_rng_next_partial(rng)
        upper == simd_rng_next_partial(lower.rng)
    IN  [rng |-> upper.rng,
         out |-> mm256_or_si256(mm256_slli_epi64(upper.out, 32), lower.out),
         lower |-> lower.out,
         upper |-> upper.out]

(***************************************************************************)
(* The test suite's scalar 32-bit PCG, the reference for the vector one    *)
(***************************************************************************)

\* struct pcg32i seeded as the test seeds it from one 64-bit seed.
pcg32i_seed(s) ==
    [current |-> Lo32(mix(s)), increment |-> Lo32(OrW(mix(mix(s)), One64))]

pcg32i_next(st) ==
    LET x == st.current
        fx == MulW(XorW(ShrW(x, ToNat(ShrW(x, 28)) + 4), x), Bytes(277803737, 4))
    IN  [st |-> [current |-> AddW(MulW(st.current, Bytes(747796405, 4)),
                                  st.increment),
                 increment |-> st.increment],
         out |-> XorW(ShrW(fx, 22), fx)]

(***************************************************************************)
(* Bit streams: a buffer of 64-bit words seen as a sequence of bits, the   *)
(* bit with global index i (word i / 64, bit i % 64) at position i + 1.    *)
(* bitarray.h is not in the sources; its accessors follow the data model.  *)
(***************************************************************************)

u64_bitarray_test(buf, i) == buf[i + 1] = 1

u64_bitarray_set(buf, i) == [buf EXCEPT ![i + 1] = 1]

\* The two bits at i and i + 1 as a number, bit i the least significant.
u64_bitarray_mask_at(buf, i) == buf[i + 1] + 2 * buf[i + 2]

\* memset(dest, 0, count): byte b of the buffer holds bits 8b .. 8b + 7.
memset_zero(buf, count) ==
    Word([i \in 1..Len(buf) |-> IF i <= 8 * count THEN 0 ELSE buf[i]])

\* rng_vndb's switch on the group at read_pos: the destination and the
\* write cursor after it.
vndb_switch_swapped(src, dest, read_pos, write_pos) ==
    LET group == u64_bitarray_mask_at(src, read_pos)
    IN  IF group = 2
        THEN [dest |-> u64_bitarray_set(dest, write_pos),
              write_pos |-> write_pos + 1]
        ELSE IF group = 1
        THEN [dest |-> dest, write_pos |-> write_pos + 1]
        ELSE [dest |-> dest, write_pos |-> write_pos]

vndb_switch(src, dest, read_pos, write_pos) ==
    LET group == u64_bitarray_mask_at(src, read_pos)
    IN  IF group = 1
        THEN [dest |-> u64_bitarray_set(dest, write_pos),
              write_pos |-> write_pos + 1]
        ELSE IF group = 2
        THEN [dest |-> dest, write_pos |-> write_pos + 1]
        ELSE [dest |-> dest, write_pos |-> write_pos]

\* rng_vndb's loop from (read_pos, write_pos) on, to its return.
RECURSIVE vndb_loop_check_first(_, _, _, _, _, _)
vndb_loop_check_first(src, dest, n, m, read_pos, write_pos) ==
    IF read_pos < n
    THEN LET sw == vndb_switch(src, dest, read_pos, write_pos)
         IN  IF sw.write_pos = m
             THEN [dest |-> sw.dest, used |-> read_pos, filled |-> sw.write_pos]
             ELSE vndb_loop_check_first(src, sw.dest, n, m, read_pos + 2,
                                        sw.write_pos)
    ELSE [dest |-> dest, used |-> read_pos, filled |-> write_pos]

RECURSIVE vndb_loop(_, _, _, _, _, _)
vndb_loop(src, dest, n, m, read_pos, write_pos) ==
    IF read_pos < n
    THEN LET sw == vndb_switch(src, dest, read_pos, write_pos)
         IN  IF sw.write_pos = m
             THEN [dest |-> sw.dest, used |-> read_pos + 2,
                   filled |-> sw.write_pos]
             ELSE vndb_loop(src, sw.dest, n, m, read_pos + 2, sw.write_pos)
    ELSE [dest |-> dest, used |-> read_pos, filled |-> write_pos]

rng_vndb(src, dest, n, m) ==
    vndb_loop(src, memset_zero(dest, ((m - 1) \div 8) + 1), n, m, 0, 0)

\* rng_cycc's counting loop from i on: x1 and x2.
RECURSIVE cycc_loop(_, _, _, _, _, _)
cycc_loop(src, n, k, i, x1, x2) ==
    IF i < n
    THEN IF u64_bitarray_test(src, i)
         THEN cycc_loop(src, n, k, i + 1,
                        IF u64_bitarray_test(src, (i + k) % n)
                        THEN x1 + 1 ELSE x1,
                        x2 + 1)
         ELSE cycc_loop(src, n, k, i + 1, x1, x2)
    ELSE [x1 |-> x1, x2 |-> x2]

\* The double num/den compared with a bound of +1 or -1; both num and den
\* are exact integers.  0/0 is NaN, which compares false with everything;
\* x/0 is an infinity of x's sign.
DoubleGe(num, den, bound) ==
    IF den = 0 THEN num > 0
    ELSE IF den > 0 THEN num >= bound * den
    ELSE num <= bound * den

DoubleLe(num, den, bound) ==
    IF den = 0 THEN num < 0
    ELSE IF den > 0 THEN num <= bound * den
    ELSE num >= bound * den

\* rng_cycc: the quotient it returns as (numerator, denominator), and
\* whether each of its two bound assertions holds.
rng_cycc_x1_denominator(src, n, k) ==
    LET x == cycc_loop(src, n, k, 0, 0, 0)
        numerator == n * x.x1 - x.x2 * x.x2
        denominator == n * x.x1 - x.x2 * x.x2
    IN  [x1 |-> x.x1, x2 |-> x.x2,
         numerator |-> numerator, denominator |-> denominator,
         lower_ok |-> DoubleGe(numerator, denominator, -1),
         upper_ok |-> DoubleLe(numerator, denominator, 1)]

rng_cycc(src, n, k) ==
    LET x == cycc_loop(src, n, k, 0, 0, 0)
        numerator == n * x.x1 - x.x2 * x.x2
        denominator == n * x.x2 - x.x2 * x.x2
    IN  [x1 |-> x.x1, x2 |-> x.x2,
         numerator |-> numerator, denominator |-> denominator,
         lower_ok |-> DoubleGe(numerator, denominator, -1),
         upper_ok |-> DoubleLe(numerator, denominator, 1)]

(***************************************************************************)
(* Bounds and input sets                                                   *)
(***************************************************************************)

\* rng_next calls allowed per scalar generator.
MaxCalls == 4

Gens == {1, 2}

Top63 == U64(\h8000, 0, 0, 0)
Max64 == OnesW(8)

\* Seeds handed to rng_init; 0 asks for non-deterministic seeding.
SeedVals == {Zero64, Bytes(1, 8), Bytes(42, 8)}

\* What one rdrand call may answer: success or failure, and the value left.
EntropyVals == {Zero64, U64(\hFFFF, \hFFFF, \hFFFF, \hFFFE)}
Outcomes == [ok : BOOLEAN, value : EntropyVals]

\* (min, max) pairs for rng_rand: spans 1, 2^j - 1, 2^64 - 1 and others;
\* the last two break min < max.
RandArgs ==
    { <<Bytes(5, 8), Bytes(6, 8)>>, <<Bytes(10, 8), Bytes(17, 8)>>,
      <<Bytes(3, 8), Bytes(7, 8)>>, <<Zero64, Max64>>,
      <<SubW(Max64, One64), Max64>>, <<Bytes(7, 8), AddW(Top63, Bytes(7, 8))>>,
      <<Bytes(9, 8), Bytes(9, 8)>>, <<Bytes(9, 8), Bytes(2, 8)>> }

\* (n, m) pairs for rng_bias; the last four break 0 < n < 2^m, 0 < m <= 64.
BiasArgs ==
    { <<Bytes(1, 8), 1>>, <<Bytes(2, 8), 2>>, <<Bytes(3, 8), 2>>,
      <<Bytes(5, 8), 3>>, <<Bytes(6, 8), 3>>, <<Top63, 64>>,
      <<U64(\h4000, 0, 0, 0), 64>>,
      <<Zero64, 3>>, <<Bytes(1, 8), 0>>, <<Bytes(1, 8), 65>>,
      <<Bytes(4, 8), 2>> }

\* (k, n, m) triples for rng_bino; the last one breaks k > 0.
BinoArgs ==
    { <<1, Bytes(1, 8), 1>>, <<63, Bytes(2, 8), 2>>, <<64, Bytes(3, 8), 2>>,
      <<65, Bytes(1, 8), 1>>, <<128, Bytes(2, 8), 2>>, <<129, Top63, 64>>,
      <<0, Bytes(1, 8), 1>> }

\* The largest exponent m for which rng_bias is run on every word sequence.
MaxBiasM == 4

\* Generator words fed to rng_bias when every sequence of them is tried.
BiasWords ==
    { U64(\h00FF, \h0F0F, \h3333, \h5555), U64(\hFFFF, \h0000, \hF0F0, \h6699) }

\* simd_rng_next calls allowed on the vector generator.
MaxSimdCalls == 3

\* Seed quadruples for simd_rng_init; a 0 anywhere asks for entropy.
SimdSeeds ==
    { <<Bytes(1, 8), Bytes(42, 8), Bytes(7, 8), Bytes(9, 8)>>,
      <<Bytes(42, 8), Bytes(42, 8), Bytes(42, 8), Bytes(42, 8)>>,
      <<Max64, Top63, Bytes(1, 8), U64(1, 0, 0, 0)>>,
      <<Bytes(9, 8), Bytes(7, 8), Bytes(42, 8), Bytes(1, 8)>>,
      <<Zero64, Zero64, Zero64, Zero64>>,
      <<Bytes(1, 8), Bytes(42, 8), Zero64, Bytes(9, 8)>>,
      <<Bytes(1, 8), Bytes(42, 8), Bytes(7, 8), Zero64>> }

\* The values eight successive rdrand calls may leave.
EntropyRuns ==
    { [i \in 1..8 |-> Zero64],
      [i \in 1..8 |-> U64(\hFFFF, \hFFFF, \hFFFF, \hFFFE)],
      [i \in 1..8 |-> U64(i, \h8000 + i, 2 * i, 16 * i)] }

\* Eight rdrand answers: the failing call f (0: none fails) and the values.
SimdTapes ==
    { [i \in 1..8 |-> [ok |-> i # f, value |-> run[i]]] :
        f \in 0..8, run \in EntropyRuns }

\* Bits in a source buffer of arbitrary content, and in the long source
\* buffers of repeated 0xAAAA... words (exactly the odd-indexed bits set).
SrcBits == 6
AltBits == 66

\* Bits in a destination buffer, and the largest m passed to rng_vndb.
DestBits == 16
MaxM == 9

BitSeqs(len) == { Word(f) : f \in [1..len -> {0, 1}] }
Alternating(len) == Word([i \in 1..len |-> (i - 1) % 2])

SrcBufs == BitSeqs(SrcBits) \cup {Alternating(AltBits)}
DestBufs == {Word([i \in 1..DestBits |-> 0]), Word([i \in 1..DestBits |-> 1])}

(***************************************************************************)
(* State                                                                   *)
(***************************************************************************)

VARIABLES
    gen,      \* gen[g]: the random_t of scalar generator g
    op,       \* op[g]: the last call on g (or the call in progress), its result
    seed,     \* seed[g]: the seed g was initialised with
    entropy,  \* entropy[g]: how g was seeded, and which rdrand answer failed
    first,    \* first[g]: the random_t rng_init returned for g
    ncalls,   \* ncalls[g]: rng_next calls made on g so far
    draws     \* draws[g]: rdrand calls made while initialising g

VARIABLES
    simd,     \* the simd_random_t of the vector generator
    sop,      \* the last call on it and what it returned
    sseed,    \* the four seeds it was initialised with
    sentropy, \* how it was seeded, and which rdrand answer failed
    sfirst,   \* the simd_random_t simd_rng_init returned
    scalls,   \* simd_rng_next calls made so far
    sdraws,   \* rdrand calls made while initialising it
    ref       \* ref[i]: the test's scalar pcg32i seeded with the i-th seed

VARIABLES
    src,      \* the caller's source bit buffer
    dest,     \* the caller's destination bit buffer
    bop       \* the last bit-stream call and what it returned

VARIABLES
    bias      \* an rng_bias run on given generator words: n, m, words, value

sisdVars == <<gen, op, seed, entropy, first, ncalls, draws>>
simdVars == <<simd, sop, sseed, sentropy, sfirst, scalls, sdraws, ref>>
streamVars == <<src, dest, bop>>

vars == <<sisdVars, simdVars, streamVars, bias>>

NoOp == [name |-> "none", pc |-> "done"]

\* How an initialisation went, from what it was given: seeded from a
\* nonzero seed, drawn from the entropy source, or failed at the rdrand
\* call number failed_at (the first answer in ent that is a failure).
NotSeeded == [kind |-> "none", failed_at |-> 0]

FirstFail(ent) ==
    IF \E i \in 1..Len(ent) : ~ent[i].ok
    THEN CHOOSE i \in 1..Len(ent) :
            ~ent[i].ok /\ \A j \in 1..(i - 1) : ent[j].ok
    ELSE 0

Seeding(deterministic, ent) ==
    IF deterministic THEN [kind |-> "seeded", failed_at |-> 0]
    ELSE IF FirstFail(ent) = 0 THEN [kind |-> "entropy", failed_at |-> 0]
    ELSE [kind |-> "failed", failed_at |-> FirstFail(ent)]

InitGens ==
    /\ gen = [g \in Gens |-> [state |-> Zero64, increment |-> Zero64]]
    /\ op = [g \in Gens |-> NoOp]
    /\ seed = [g \in Gens |-> Zero64]
    /\ entropy = [g \in Gens |-> NotSeeded]
    /\ first = [g \in Gens |-> [state |-> Zero64, increment |-> Zero64]]
    /\ ncalls = [g \in Gens |-> 0]
    /\ draws = [g \in Gens |-> 0]
    /\ simd = [state |-> mm256_setzero_si256, increment |-> mm256_setzero_si256]
    /\ sop = NoOp
    /\ sseed = <<Zero64, Zero64, Zero64, Zero64>>
    /\ sentropy = NotSeeded
    /\ sfirst = [state |-> mm256_setzero_si256, increment |-> mm256_setzero_si256]
    /\ scalls = 0
    /\ sdraws = 0
    /\ ref = Word([i \in Lanes |-> [current |-> ZeroW(4), increment |-> ZeroW(4)]])

\* No bit-stream buffers in play.
InitNoStream ==
    /\ src = <<>>
    /\ dest = <<>>
    /\ bop = NoOp

\* No rng_bias run on given words.
InitNoBias == bias = NoOp

Init == InitGens /\ InitNoStream /\ InitNoBias

\* The caller has allocated and filled a source and a destination buffer.
InitStream ==
    /\ InitGens
    /\ InitNoBias
    /\ src \in SrcBufs
    /\ dest \in DestBufs
    /\ bop = NoOp

\* An rng_bias call with 0 < n < 2^m and the m - ctz(n) words its generator
\* is about to return.
InitBias ==
    /\ InitGens
    /\ InitNoStream
    /\ \E m \in 1..MaxBiasM :
        \E n \in 1..(2 ^ m - 1) :
        \E ws \in [1..BiasCalls(Bytes(n, 8), m) -> BiasWords] :
            bias = [name |-> "bias", pc |-> "start", n |-> n, m |-> m,
                    words |-> Word(ws), value |-> Zero64]

\* g has been initialised and no call on it is in progress.
Ready(g) == op[g].name # "none" /\ op[g].pc = "done"

(***************************************************************************)
(* Scalar generator calls                                                  *)
(***************************************************************************)

RngInit(g, s, ent) ==
    /\ op[g].name = "none"
    /\ LET r == rng_init(s, ent)
       IN  /\ gen' = [gen EXCEPT ![g] = r.rng]
           /\ first' = [first EXCEPT ![g] = r.rng]
           /\ draws' = [draws EXCEPT ![g] = r.draws]
    /\ seed' = [seed EXCEPT ![g] = s]
    /\ entropy' = [entropy EXCEPT ![g] = Seeding(s # Zero64, ent)]
    /\ op' = [op EXCEPT ![g] = [name |-> "init", pc |-> "done"]]
    /\ UNCHANGED <<ncalls, simdVars, streamVars, bias>>

RngNext(g) ==
    /\ Ready(g)
    /\ ncalls[g] < MaxCalls
    /\ LET nx == rng_next(gen[g])
       IN  /\ gen' = [gen EXCEPT ![g] = nx.rng]
           /\ op' = [op EXCEPT ![g] =
                        [name |-> "next", pc |-> "done", value |-> nx.out]]
    /\ ncalls' = [ncalls EXCEPT ![g] = @ + 1]
    /\ UNCHANGED <<seed, entropy, first, draws, simdVars, streamVars, bias>>

\* One pass of rng_rand's do-while: a draw, the test, and the return when
\* the sample is accepted.  fr holds min, max, scaled_max, bitmask, tries.
rand_iter_tests_max(rng, fr) ==
    LET nx == rng_next(rng)
        sample == AndW(nx.out, fr.bitmask)
        again == LtW(fr.max, sample)
        total == AddFrom(sample, fr.min, 1, 0)
    IN  [rng |-> nx.rng,
         op |-> [name |-> "rand",
                 pc |-> IF again THEN "loop" ELSE "done",
                 min |-> fr.min, max |-> fr.max,
                 scaled_max |-> fr.scaled_max, bitmask |-> fr.bitmask,
                 tries |-> fr.tries + 1,
                 sample |-> sample,
                 value |-> total.sum,
                 carry |-> total.carry]]

rand_iter(rng, fr) ==
    LET nx == rng_next(rng)
        sample == AndW(nx.out, fr.bitmask)
        again == LtW(fr.scaled_max, sample)
        total == AddFrom(sample, fr.min, 1, 0)
    IN  [rng |-> nx.rng,
         op |-> [name |-> "rand",
                 pc |-> IF again THEN "loop" ELSE "done",
                 min |-> fr.min, max |-> fr.max,
                 scaled_max |-> fr.scaled_max, bitmask |-> fr.bitmask,
                 tries |-> fr.tries + 1,
                 sample |-> sample,
                 value |-> total.sum,
                 carry |-> total.carry]]

\* rng_rand(rng, min, max) up to the end of the first pass of its loop.
RngRand(g, min, max) ==
    /\ Ready(g)
    /\ LtW(min, max)
    /\ ncalls[g] < MaxCalls
    /\ LET mk == rand_mask(min, max)
           it == rand_iter(gen[g], [min |-> min, max |-> max,
                                    scaled_max |-> mk.scaled_max,
                                    bitmask |-> mk.bitmask, tries |-> 0])
       IN  /\ gen' = [gen EXCEPT ![g] = it.rng]
           /\ op' = [op EXCEPT ![g] = it.op]
    /\ ncalls' = [ncalls EXCEPT ![g] = @ + 1]
    /\ UNCHANGED <<seed, entropy, first, draws, simdVars, streamVars, bias>>

\* A further pass of the loop after a rejected sample.
RngRandRetry(g) ==
    /\ op[g].name = "rand"
    /\ op[g].pc = "loop"
    /\ ncalls[g] < MaxCalls
    /\ LET it == rand_iter(gen[g], op[g])
       IN  /\ gen' = [gen EXCEPT ![g] = it.rng]
           /\ op' = [op EXCEPT ![g] = it.op]
    /\ ncalls' = [ncalls EXCEPT ![g] = @ + 1]
    /\ UNCHANGED <<seed, entropy, first, draws, simdVars, streamVars, bias>>

RngBias(g, n, m) ==
    /\ Ready(g)
    /\ BiasPre(n, m)
    /\ ncalls[g] + BiasCalls(n, m) <= MaxCalls
    /\ LET b == rng_bias(gen[g], n, m)
       IN  /\ gen' = [gen EXCEPT ![g] = b.rng]
           /\ op' = [op EXCEPT ![g] =
                        [name |-> "bias", pc |-> "done", n |-> n, m |-> m,
                         value |-> b.value, calls |-> b.calls,
                         words |-> next_words(gen[g], b.calls)]]
           /\ ncalls' = [ncalls EXCEPT ![g] = @ + b.calls]
    /\ UNCHANGED <<seed, entropy, first, draws, simdVars, streamVars, bias>>

RngBino(g, k, n, m) ==
    /\ Ready(g)
    /\ BiasPre(n, m)
    /\ k # 0
    /\ ncalls[g] + ((k + 63) \div 64) * BiasCalls(n, m) <= MaxCalls
    /\ LET b == rng_bino(gen[g], k, n, m)
       IN  /\ gen' = [gen EXCEPT ![g] = b.rng]
           /\ op' = [op EXCEPT ![g] =
                        [name |-> "bino", pc |-> "done", k |-> k, n |-> n,
                         m |-> m, value |-> b.value, calls |-> b.calls,
                         chunks |-> b.chunks, shift |-> b.shift,
                         biased |-> bias_values(gen[g], n, m, b.chunks)]]
           /\ ncalls' = [ncalls EXCEPT ![g] = @ + b.calls]
    /\ UNCHANGED <<seed, entropy, first, draws, simdVars, streamVars, bias>>

(***************************************************************************)
(* Vector generator calls, with the test's four reference streams          *)
(***************************************************************************)

SimdRngInit(seeds, ent) ==
    /\ sop.name = "none"
    /\ LET r == simd_rng_init(seeds[1], seeds[2], seeds[3], seeds[4], ent)
       IN  /\ simd' = r.rng
           /\ sfirst' = r.rng
           /\ sdraws' = r.draws
    /\ sseed' = seeds
    /\ sentropy' = Seeding(\A i \in Lanes : seeds[i] # Zero64, ent)
    /\ sop' = [name |-> "init", pc |-> "done"]
    /\ ref' = Word([i \in Lanes |-> pcg32i_seed(seeds[i])])
    /\ UNCHANGED <<scalls, sisdVars, streamVars, bias>>

\* One pass of the test's loop: a simd_rng_next call, and two pcg32i_next
\* calls on each reference stream; expect[2i-1], expect[2i] are stream i's.
SimdRngNext ==
    /\ sop.name # "none"
    /\ scalls < MaxSimdCalls
    /\ LET nx == simd_rng_next(simd)
           r1 == Word([i \in Lanes |-> pcg32i_next(ref[i])])
           r2 == Word([i \in Lanes |-> pcg32i_next(r1[i].st)])
       IN  /\ simd' = nx.rng
           /\ ref' = Word([i \in Lanes |-> r2[i].st])
           /\ sop' = [name |-> "next", pc |-> "done", out |-> nx.out,
                      lower |-> nx.lower, upper |-> nx.upper,
                      expect |-> Word([j \in 1..8 |->
                                    IF j % 2 = 1 THEN r1[(j + 1) \div 2].out
                                    ELSE r2[j \div 2].out])]
    /\ scalls' = scalls + 1
    /\ UNCHANGED <<sseed, sentropy, sfirst, sdraws, sisdVars, streamVars, bias>>

(***************************************************************************)
(* Bit-stream calls                                                        *)
(***************************************************************************)

\* rng_vndb(src, dest, n, m) under its assertions; dest holds m bits.
\* Each behaviour makes one call on the buffers the caller prepared.
RngVndb(n, m) ==
    /\ bop.name = "none"
    /\ n # 0 /\ m # 0 /\ n % 2 = 0
    /\ n <= Len(src) /\ m <= MaxM /\ 8 * (((m - 1) \div 8) + 1) <= Len(dest)
    /\ LET r == rng_vndb(src, dest, n, m)
       IN  /\ dest' = r.dest
           /\ bop' = [name |-> "vndb", pc |-> "done", n |-> n, m |-> m,
                      used |-> r.used, filled |-> r.filled]
    /\ UNCHANGED <<src, sisdVars, simdVars, bias>>

\* rng_cycc(src, n, k) under its assertions on the arguments.
RngCycc(n, k) ==
    /\ bop.name = "none"
    /\ n # 0 /\ k < n
    /\ n <= Len(src)
    /\ LET r == rng_cycc(src, n, k)
       IN  bop' = [name |-> "cycc", pc |-> "done", n |-> n, k |-> k,
                   x1 |-> r.x1, x2 |-> r.x2,
                   numerator |-> r.numerator, denominator |-> r.denominator,
                   lower_ok |-> r.lower_ok, upper_ok |-> r.upper_ok]
    /\ UNCHANGED <<src, dest, sisdVars, simdVars, bias>>

\* rng_bias(rng, n, m) when its generator returns bias.words.
RngBiasOn ==
    /\ bias.name = "bias"
    /\ bias.pc = "start"
    /\ BiasPre(Bytes(bias.n, 8), bias.m)
    /\ bias' = [bias EXCEPT !.pc = "done",
                            !.value = rng_bias_on(bias.words, Bytes(bias.n, 8),
                                                  bias.m)]
    /\ UNCHANGED <<sisdVars, simdVars, streamVars>>

(***************************************************************************)
(* Specifications                                                          *)
(***************************************************************************)

\* One scalar generator and every call of the scalar API.
Next ==
    \/ \E s \in SeedVals, e1 \in Outcomes, e2 \in Outcomes :
            RngInit(1, s, <<e1, e2>>)
    \/ RngNext(1)
    \/ \E a \in RandArgs : RngRand(1, a[1], a[2])
    \/ RngRandRetry(1)
    \/ \E a \in BiasArgs : RngBias(1, a[1], a[2])
    \/ \E a \in BinoArgs : RngBino(1, a[1], a[2], a[3])

Spec == Init /\ [][Next]_vars

\* Two scalar generators, each initialised once and then stepped.
NextTwin ==
    \/ \E g \in Gens, s \in SeedVals, e1 \in Outcomes, e2 \in Outcomes :
            RngInit(g, s, <<e1, e2>>)
    \/ \E g \in Gens : RngNext(g)

SpecTwin == Init /\ [][NextTwin]_vars

\* The vector generator, initialised once and then stepped.
NextSimd ==
    \/ \E seeds \in SimdSeeds, ent \in SimdTapes : SimdRngInit(seeds, ent)
    \/ SimdRngNext

SpecSimd == Init /\ [][NextSimd]_vars

\* The bit-stream utilities on caller-supplied buffers.
NextStream ==
    \/ \E n \in 0..Len(src), m \in 0..MaxM : RngVndb(n, m)
    \/ \E n \in 0..Len(src), k \in 0..Len(src) : RngCycc(n, k)

SpecStream == InitStream /\ [][NextStream]_vars

\* Both initialisation calls, each made once.
NextInit ==
    \/ \E s \in SeedVals, e1 \in Outcomes, e2 \in Outcomes :
            RngInit(1, s, <<e1, e2>>)
    \/ \E seeds \in SimdSeeds, ent \in SimdTapes : SimdRngInit(seeds, ent)

SpecInit == Init /\ [][NextInit]_vars

\* Both generators after an initialisation that failed, used all the same.
NextSentinel ==
    \/ \E e1 \in Outcomes, e2 \in Outcomes :
            /\ ~(e1.ok /\ e2.ok)
            /\ RngInit(1, Zero64, <<e1, e2>>)
    \/ RngNext(1)
    \/ \E a \in RandArgs : RngRand(1, a[1], a[2])
    \/ \E a \in BiasArgs : RngBias(1, a[1], a[2])
    \/ \E a \in BinoArgs : RngBino(1, a[1], a[2], a[3])
    \/ \E seeds \in SimdSeeds, ent \in SimdTapes :
            /\ \E i \in Lanes : seeds[i] = Zero64
            /\ \E i \in Lanes : seeds[i] # Zero64
            /\ ~ent[1].ok
            /\ SimdRngInit(seeds, ent)
    \/ SimdRngNext

SpecSentinel == Init /\ [][NextSentinel]_vars

\* rng_bias on every sequence of generator words.
NextBias == RngBiasOn

SpecBias == InitBias /\ [][NextBias]_vars

(***************************************************************************)
(* Properties of the scalar generator                                      *)
(***************************************************************************)

\* C1 (under SpecTwin): two generators produced by rng_init from the same
\* nonzero seed return the same value on their i-th rng_next call for every
\* i and hold equal (state, increment) pairs after every call, and no
\* rdrand call is made for either.
C1_Determinism ==
    (entropy[1].kind # "none" /\ entropy[2].kind # "none"
        /\ seed[1] = seed[2] /\ seed[1] # Zero64) =>
        /\ draws[1] = 0
        /\ draws[2] = 0
        /\ ncalls[1] = ncalls[2] => (gen[1] = gen[2] /\ op[1] = op[2])

\* Both generators, seeded alike, after their third rng_next call.
C1_Witness ==
    /\ seed[1] = Bytes(42, 8)
    /\ seed[2] = Bytes(42, 8)
    /\ ncalls[1] = 3
    /\ ncalls[2] = 3
    /\ op[1].name = "next"
    /\ op[2].name = "next"

\* C3 (under Spec): whenever rng_rand(rng, min, max) returns, min < max,
\* the value v it returns satisfies min <= v <= max, the sum sample + min
\* did not wrap, and sample <= scaled_max, the closing assertion, holds.
C3_RandInRange ==
    (op[1].name = "rand" /\ op[1].pc = "done") =>
        /\ LeW(op[1].min, op[1].value)
        /\ LeW(op[1].value, op[1].max)
        /\ op[1].carry = 0
        /\ LeW(op[1].sample, op[1].scaled_max)
        /\ op[1].scaled_max = SubW(op[1].max, op[1].min)

\* rng_rand returned after rejecting at least one sample.
C3_Witness ==
    /\ op[1].name = "rand"
    /\ op[1].pc = "done"
    /\ op[1].tries >= 2

\* C10 (under Spec): after a successful rng_init and any sequence of
\* rng_next, rng_rand, rng_bias and rng_bino calls the increment is odd and
\* is the one rng_init returned; for a nonzero seed it is
\* mix(mix(seed)) | 1, and the state rng_init returns is mix(seed).
C10_IncrementFixed ==
    entropy[1].kind \in {"seeded", "entropy"} =>
        /\ BitW(gen[1].increment, 0) = 1
        /\ gen[1].increment = first[1].increment
        /\ entropy[1].kind = "seeded" =>
                /\ first[1].increment = OrW(mix(mix(seed[1])), One64)
                /\ first[1].state = mix(seed[1])

\* An entropy-seeded generator after an rng_bino call.
C10_Witness ==
    /\ entropy[1].kind = "entropy"
    /\ op[1].name = "bino"
    /\ ncalls[1] >= 3

\* The first j generator words combined as the bitcode n reads from its
\* lowest set bit p0 upwards: word 1 ORed into zero, word i > 1 ANDed in
\* when bit p0 + i - 1 of n is 0 and ORed in when it is 1.
RECURSIVE Combined(_, _, _, _)
Combined(words, n, p0, j) ==
    IF j = 1 THEN OrW(Zero64, words[1])
    ELSE IF BitW(n, p0 + j - 1) = 0
         THEN AndW(Combined(words, n, p0, j - 1), words[j])
         ELSE OrW(Combined(words, n, p0, j - 1), words[j])

\* C14 (under Spec): one call of rng_bias(rng, n, m), 0 < n < 2^m, makes
\* exactly m - p0 rng_next calls, p0 the lowest set bit of n, which is at
\* least 1 and at most m; the first word is ORed into the zero
\* accumulator, each later one is ANDed in when the scanned bit of n is 0
\* and ORed in when it is 1, in increasing bit order.
C14_BiasCalls ==
    op[1].name = "bias" =>
        LET p0 == ctzll(op[1].n)
        IN  /\ op[1].calls = op[1].m - p0
            /\ op[1].calls >= 1
            /\ op[1].calls <= op[1].m
            /\ Len(op[1].words) = op[1].calls
            /\ BitW(op[1].n, p0) = 1
            /\ op[1].value = Combined(op[1].words, op[1].n, p0, op[1].calls)

\* n = 5, m = 3 on a seeded generator: an OR, an AND and an OR.
C14_Witness ==
    /\ op[1].name = "bias"
    /\ entropy[1].kind = "seeded"
    /\ op[1].n = Bytes(5, 8)
    /\ op[1].m = 3
    /\ op[1].calls = 3
    /\ op[1].words[1] # op[1].words[2]
    /\ op[1].value # op[1].words[3]

\* Set bits in the first count words of a sequence.
RECURSIVE PopSum(_, _)
PopSum(words, count) ==
    IF count = 0 THEN 0
    ELSE PopSum(words, count - 1) + popcountll(words[count])

\* C12 as amended (under Spec): rng_bino(rng, k, n, m), k > 0, counts the
\* full population of one biased word per chunk of 64 trials while more
\* than 64 trials remain, and then counts one final biased word
\* right-shifted by 64 - remaining, remaining being the trials still
\* outstanding, between 1 and 64.
C12_BinoChunks ==
    op[1].name = "bino" =>
        LET full == (op[1].k - 1) \div 64
            remaining == op[1].k - 64 * full
        IN  /\ remaining \in 1..64
            /\ Len(op[1].biased) = full + 1
            /\ op[1].shift = 64 - remaining
            /\ op[1].value = PopSum(op[1].biased, full)
                    + popcountll(ShrW(op[1].biased[full + 1], 64 - remaining))

\* C12 as stated: full words are counted until fewer than 64 trials
\* remain, and the final word is shifted by 64 - remaining with remaining
\* fewer than 64.
C12_BinoChunksUntilBelow64 ==
    op[1].name = "bino" =>
        LET full == op[1].k \div 64
            remaining == op[1].k - 64 * full
        IN  /\ remaining < 64
            /\ Len(op[1].biased) = full + 1
            /\ op[1].shift = 64 - remaining
            /\ op[1].value = PopSum(op[1].biased, full)
                    + popcountll(ShrW(op[1].biased[full + 1], 64 - remaining))

\* 128 trials: one full word, then a final word counted whole.
C12_Witness ==
    /\ op[1].name = "bino"
    /\ op[1].k = 128
    /\ op[1].shift = 0
    /\ Len(op[1].biased) = 2
    /\ op[1].value > 0

\* C17 (under Spec): rng_bino(rng, k, n, m), k > 0, calls rng_bias
\* ceil(k / 64) times, its final shift amount is in 0..63, the biased bits
\* it counts are k in all, and the count it returns is at most k.
C17_BinoCounts ==
    op[1].name = "bino" =>
        /\ op[1].chunks = (op[1].k + 63) \div 64
        /\ op[1].calls = op[1].chunks * BiasCalls(op[1].n, op[1].m)
        /\ op[1].shift \in 0..63
        /\ 64 * (op[1].chunks - 1) + (64 - op[1].shift) = op[1].k
        /\ op[1].value <= op[1].k

\* 129 trials: three rng_bias calls, the last word shifted by 63.
C17_Witness ==
    /\ op[1].name = "bino"
    /\ op[1].k = 129
    /\ op[1].chunks = 3
    /\ op[1].shift = 63

(***************************************************************************)
(* Properties of initialisation (checked under SpecInit)                   *)
(***************************************************************************)

\* C9: when rng_init is given seed 0, or simd_rng_init a seed quadruple
\* with a 0 in it, and an rdrand call fails, every state word and every
\* increment word returned is 0, and the failed call is the last one made.
C9_FailureSentinel ==
    /\ entropy[1].kind = "failed" =>
            /\ gen[1] = [state |-> Zero64, increment |-> Zero64]
            /\ draws[1] = entropy[1].failed_at
    /\ sentropy.kind = "failed" =>
            /\ simd = [state |-> mm256_setzero_si256,
                       increment |-> mm256_setzero_si256]
            /\ sdraws = sentropy.failed_at

\* The scalar call failed at its second draw and the vector call, given
\* three nonzero seeds and a 0, at its sixth.
C9_Witness ==
    /\ seed[1] = Zero64
    /\ entropy[1].kind = "failed"
    /\ entropy[1].failed_at = 2
    /\ sseed[1] # Zero64
    /\ sentropy.kind = "failed"
    /\ sentropy.failed_at = 6

\* The failure sentinels of the two initialisation calls.
Sentinel == [state |-> Zero64, increment |-> Zero64]
SimdSentinel ==
    [state |-> mm256_setzero_si256, increment |-> mm256_setzero_si256]

\* C15: rng_init returns state = 0 and increment = 0 only when seed = 0
\* and an rdrand call failed, and simd_rng_init returns all-zero registers
\* only when some seed is 0 and an rdrand call failed; on every successful
\* path the increment, or each increment lane, has bit 0 set, so what is
\* returned differs from the sentinel whatever the seed or drawn values.
C15_SentinelOnlyOnFailure ==
    /\ (op[1].name = "init" /\ gen[1] = Sentinel) =>
            (seed[1] = Zero64 /\ entropy[1].kind = "failed")
    /\ (op[1].name = "init" /\ entropy[1].kind # "failed") =>
            (BitW(gen[1].increment, 0) = 1 /\ gen[1] # Sentinel)
    /\ (sop.name = "init" /\ simd = SimdSentinel) =>
            ((\E i \in Lanes : sseed[i] = Zero64) /\ sentropy.kind = "failed")
    /\ (sop.name = "init" /\ sentropy.kind # "failed") =>
            /\ \A i \in Lanes : BitW(simd.increment[i], 0) = 1
            /\ simd # SimdSentinel

\* Both calls succeeded on an entropy source that answered 0 every time.
C15_Witness ==
    /\ op[1].name = "init"
    /\ entropy[1].kind = "entropy"
    /\ gen[1].state = Zero64
    /\ gen[1].increment = One64
    /\ sop.name = "init"
    /\ sentropy.kind = "entropy"
    /\ simd.state = mm256_setzero_si256
    /\ simd.increment = mm256_set1_epi64x(One64)

(***************************************************************************)
(* Properties of the vector generator (checked under SpecSimd)             *)
(***************************************************************************)

\* C2: after simd_rng_init(a, b, c, d) with nonzero seeds, the j-th
\* simd_rng_next call returns in 64-bit block i (0 the least significant)
\* the (2j-1)-th output of the scalar pcg32i seeded from the i-th seed in
\* its low 32 bits and the (2j)-th in its high 32 bits.
C2_VectorMatchesScalar ==
    (sop.name = "next" /\ sentropy.kind = "seeded") =>
        \A i \in Lanes :
            /\ Lo32(sop.out[i]) = sop.expect[2 * i - 1]
            /\ Hi32(sop.out[i]) = sop.expect[2 * i]

\* The third vector call on four different nonzero seeds.
C2_Witness ==
    /\ sop.name = "next"
    /\ scalls = 3
    /\ sseed = <<Bytes(1, 8), Bytes(42, 8), Bytes(7, 8), Bytes(9, 8)>>

\* C11: after a successful simd_rng_init and any number of simd_rng_next
\* calls, in each 64-bit lane the upper 32 bits of state and of increment
\* are 0, the increment is odd and is the one simd_rng_init returned, and
\* each of the two partial steps of a call returned a vector whose upper
\* 32 bits are 0 in every lane.
C11_UpperBitsZero ==
    sentropy.kind \in {"seeded", "entropy"} =>
        /\ \A i \in Lanes :
            /\ Hi32(simd.state[i]) = ZeroW(4)
            /\ Hi32(simd.increment[i]) = ZeroW(4)
            /\ BitW(simd.increment[i], 0) = 1
        /\ simd.increment = sfirst.increment
        /\ sop.name = "next" =>
                \A i \in Lanes :
                    /\ Hi32(sop.lower[i]) = ZeroW(4)
                    /\ Hi32(sop.upper[i]) = ZeroW(4)

\* The third call on a generator drawn from the entropy source, whose
\* 64-bit answers had upper and even bits to clear.
C11_Witness ==
    /\ sentropy.kind = "entropy"
    /\ sop.name = "next"
    /\ scalls = 3
    /\ simd.state # sfirst.state
    /\ \E i \in Lanes : Lo32(simd.increment[i]) # Bytes(1, 4)

\* The lane simd_rng_init builds from one nonzero seed: low32(mix(seed))
\* as state and low32(mix(mix(seed))) | 1 as increment, upper halves 0.
SeededLane(s) ==
    [state |-> Lo32(mix(s)) \o ZeroW(4),
     increment |-> Lo32(OrW(mix(mix(s)), One64)) \o ZeroW(4)]

\* C13 as amended: simd_rng_init with four nonzero seeds assigns the
\* stream derived from seed_1 to lane 0, the least-significant 64-bit block
\* of the state and increment registers, seed_2 to lane 1, seed_3 to lane 2
\* and seed_4 to lane 3; each lane holds state = low32(mix(seed)) and
\* increment = low32(mix(mix(seed))) | 1.
C13_LaneOrder ==
    sentropy.kind = "seeded" =>
        \A i \in Lanes :
            /\ sfirst.state[i] = SeededLane(sseed[i]).state
            /\ sfirst.increment[i] = SeededLane(sseed[i]).increment

\* C13 as stated: seed_4 goes to lane 0, seed_3 to lane 1, seed_2 to lane 2
\* and seed_1 to lane 3.
C13_LaneOrderReversed ==
    sentropy.kind = "seeded" =>
        \A i \in Lanes :
            /\ sfirst.state[i] = SeededLane(sseed[5 - i]).state
            /\ sfirst.increment[i] = SeededLane(sseed[5 - i]).increment

\* Four different nonzero seeds, just after simd_rng_init.
C13_Witness ==
    /\ sop.name = "init"
    /\ sentropy.kind = "seeded"
    /\ sseed = <<Bytes(9, 8), Bytes(7, 8), Bytes(42, 8), Bytes(1, 8)>>
    /\ simd = sfirst
    /\ sfirst.state[1] # sfirst.state[4]

(***************************************************************************)
(* Properties of rng_bias (checked under SpecBias)                         *)
(***************************************************************************)

\* The word with every bit equal to b, and the words carrying bits[j].
Lift(bits) == Word([j \in 1..Len(bits) |-> IF bits[j] = 1 THEN Max64 ELSE Zero64])

\* Bit i of each word of a sequence.
BitsAt(words, i) == Word([j \in 1..Len(words) |-> BitW(words[j], i)])

\* C5: each output bit of rng_bias(rng, n, m), 0 < n < 2^m, is 1 with
\* probability n/2^m on uniform generator words: with p0 the lowest set
\* bit of n, exactly n/2^p0 of the 2^(m-p0) bit sequences the consumed
\* words can carry at a position leave the bit set; and output bit i
\* depends only on bit i of the consumed words.
C5_BiasProbability ==
    bias.pc = "done" =>
        LET n == Bytes(bias.n, 8)
            p0 == ctzll(n)
            len == bias.m - p0
        IN  /\ Len(bias.words) = len
            /\ \A i \in 0..63 :
                    BitW(bias.value, i)
                        = BitW(rng_bias_on(Lift(BitsAt(bias.words, i)), n, bias.m), i)
            /\ Cardinality({ bits \in [1..len -> {0, 1}] :
                                BitW(rng_bias_on(Lift(Word(bits)), n, bias.m), 0) = 1 })
                    * (2 ^ p0) = bias.n

\* n = 6, m = 4: three generator words combined, one bitcode bit skipped.
C5_Witness ==
    /\ bias.name = "bias"
    /\ bias.pc = "done"
    /\ bias.n = 6
    /\ bias.m = 4
    /\ bias.words[1] # bias.words[2]

(***************************************************************************)
(* Properties of the bit-stream utilities (checked under SpecStream)       *)
(***************************************************************************)

\* The value of the g-th 2-bit group of the source (g = 1 is bits 0 and 1),
\* the lower bit index being the least significant.
GroupValue(g) == src[2 * g - 1] + 2 * src[2 * g]

\* The values of the non-discarded groups among the first cnt groups.
RECURSIVE Emitted(_)
Emitted(cnt) ==
    IF cnt = 0 THEN <<>>
    ELSE IF GroupValue(cnt) \in {1, 2}
    THEN Append(Emitted(cnt - 1), GroupValue(cnt))
    ELSE Emitted(cnt - 1)

\* C4: for every n > 0, k < n and n-bit stream, constant streams included,
\* rng_cycc returns a value in [-1.0, 1.0] and neither bound assertion
\* fails: n*x2 - x2^2 > 0 and -(n*x2 - x2^2) <= n*x1 - x2^2 <= n*x2 - x2^2.
C4_CyccInBounds ==
    bop.name = "cycc" =>
        /\ bop.lower_ok
        /\ bop.upper_ok
        /\ bop.n * bop.x2 - bop.x2 * bop.x2 > 0
        /\ -(bop.n * bop.x2 - bop.x2 * bop.x2) <= bop.n * bop.x1 - bop.x2 * bop.x2
        /\ bop.n * bop.x1 - bop.x2 * bop.x2 <= bop.n * bop.x2 - bop.x2 * bop.x2

\* C6: after rng_vndb returns (used, filled), destination bit j, for each
\* j < filled, is 1 when the j-th non-discarded group of the source has
\* value 1 and 0 when it has value 2; groups of value 0 and 3 leave no bit
\* and do not move the write cursor; bits filled..m-1 of the destination
\* are 0.
C6_VndbBits ==
    bop.name = "vndb" =>
        LET em == Emitted(bop.n \div 2)
        IN  /\ bop.filled <= Len(em)
            /\ \A j \in 1..bop.filled :
                    dest[j] = (IF em[j] = 1 THEN 1 ELSE 0)
            /\ \A j \in (bop.filled + 1)..bop.m : dest[j] = 0

\* A call that emitted a 1 and then a 0, skipped a discarded group, and
\* left the destination short of m bits.
C6_Witness ==
    /\ bop.name = "vndb"
    /\ bop.filled >= 2
    /\ bop.filled < bop.m
    /\ dest[1] = 1
    /\ dest[2] = 0
    /\ \E g \in 1..(bop.used \div 2) : GroupValue(g) \in {0, 3}

\* C7: rng_vndb returns (used, filled) with used even, used <= n,
\* filled <= m, filled <= used/2 and (filled = m or used = n); filled is the
\* number of groups of value 1 or 2 among the first used/2 groups; when
\* filled = m the last group read was an emitting one, so nothing is read
\* once the destination is full; filled < m is an ordinary result.
C7_VndbProgress ==
    bop.name = "vndb" =>
        /\ bop.used % 2 = 0
        /\ bop.used <= bop.n
        /\ bop.filled <= bop.m
        /\ 2 * bop.filled <= bop.used
        /\ (bop.filled = bop.m \/ bop.used = bop.n)
        /\ bop.filled = Len(Emitted(bop.used \div 2))
        /\ bop.filled = bop.m => GroupValue(bop.used \div 2) \in {1, 2}

\* The source ran out before the destination was full.
C7_Witness ==
    /\ bop.name = "vndb"
    /\ bop.filled > 0
    /\ bop.filled < bop.m
    /\ bop.used = bop.n
    /\ bop.used > 2 * bop.filled

\* The first n bits of the source are the 0xAAAA... pattern.
IsAlternating(n) == \A i \in 0..(n - 1) : src[i + 1] = i % 2

\* C8: for an even length n and the pattern with exactly the odd-indexed
\* bits set, rng_cycc is exactly +1.0 for even k and exactly -1.0 for odd k,
\* k in 0..63, k < n: the numerator equals the denominator, or its negation,
\* and the denominator is not zero.
C8_CyccAlternating ==
    (bop.name = "cycc" /\ bop.n % 2 = 0 /\ bop.k <= 63 /\ IsAlternating(bop.n)) =>
        /\ bop.denominator # 0
        /\ bop.denominator = bop.n * bop.x2 - bop.x2 * bop.x2
        /\ bop.numerator = bop.n * bop.x1 - bop.x2 * bop.x2
        /\ bop.k % 2 = 0 => bop.numerator = bop.denominator
        /\ bop.k % 2 = 1 => bop.numerator = -bop.denominator
        /\ bop.lower_ok /\ bop.upper_ok

\* The largest lag of the claim on a stream longer than one word.
C8_Witness ==
    /\ bop.name = "cycc"
    /\ bop.n % 2 = 0
    /\ bop.n > 64
    /\ bop.k = 63
    /\ IsAlternating(bop.n)
    /\ bop.numerator = -bop.denominator

(***************************************************************************)
(* Properties of a generator whose initialisation failed (SpecSentinel)    *)
(***************************************************************************)

\* C16: from state = 0 and increment = 0 every rng_next call returns 0 and
\* leaves the pair at (0, 0); every simd_rng_next call on all-zero
\* registers returns the all-zero vector and leaves them all-zero; so
\* rng_bias returns 0 and rng_rand returns min on a sentinel generator.
C16_SentinelFixedPoint ==
    /\ entropy[1].kind = "failed" =>
            /\ gen[1] = Sentinel
            /\ op[1].name = "next" => op[1].value = Zero64
            /\ op[1].name = "bias" =>
                    /\ op[1].value = Zero64
                    /\ \A j \in 1..Len(op[1].words) : op[1].words[j] = Zero64
            /\ op[1].name = "rand" =>
                    /\ op[1].pc = "done"
                    /\ op[1].tries = 1
                    /\ op[1].value = op[1].min
    /\ sentropy.kind = "failed" =>
            /\ simd = SimdSentinel
            /\ sop.name = "next" => sop.out = mm256_setzero_si256

\* Both sentinel generators after several calls, the scalar one's last
\* being an rng_rand with a nonzero min.
C16_Witness ==
    /\ entropy[1].kind = "failed"
    /\ ncalls[1] >= 3
    /\ op[1].name = "rand"
    /\ op[1].min # Zero64
    /\ sentropy.kind = "failed"
    /\ scalls = 3
    /\ sop.name = "next"

====
